---- MODULE Spec2Model ----
(***************************************************************************)
(* Undo/Redo history for a block editor (src/src/index.js, class Undo).    *)
(*                                                                         *)
(* The plugin's fields (stack, position, shouldSaveHistory, readOnly,      *)
(* initialItem) are the state, together with the part of the editor the    *)
(* plugin reads and writes through the blocks/caret API: the live document *)
(* (live), the current block index (cur), the toolbox that setReadOnly     *)
(* looks for (toolbox) and the editor.save() promises not yet resolved     *)
(* (pending).  Array positions are 0-based as in the source: At(s, i) is   *)
(* the JavaScript s[i].                                                    *)
(***************************************************************************)
EXTENDS Integers, Sequences, FiniteSets, TLC

VARIABLES
  stack,              \* this.stack: sequence of entries {index, state, caretIndex}
  position,           \* this.position (0-based)
  shouldSaveHistory,  \* this.shouldSaveHistory
  readOnly,           \* this.readOnly
  initialItem,        \* this.initialItem: NoItem (null) or an entry
  initialAt,          \* 0-based stack position of the object initialItem refers to, -1 if none
  live,               \* the editor's blocks, in render order
  cur,                \* blocks.getCurrentBlockIndex()
  toolbox,            \* whether the holder has a .ce-toolbox element (editor not read-only)
  pending,            \* snapshots of editor.save() calls whose promise has not resolved
  dirty,              \* change observations the observer has still to make
  edits,              \* number of user edits (bounded by MaxEdits or MaxTypings) and of
                      \* undo/redo calls observed more than once (MaxSlow) so far
  fx,                 \* what the step just taken called: see NoFx
  run                 \* the undo/redo run in progress: see NoRun

vars == << stack, position, shouldSaveHistory, readOnly, initialItem, initialAt,
           live, cur, toolbox, pending, dirty, edits, fx, run >>

----------------------------------------------------------------------------
(* Bounds of the model *)

\* maxLength option of the constructor (default 30); kept small here
maxLength == 2
\* largest document the user builds
MaxBlocks == 3
\* number of user edits in a behaviour of Spec
MaxEdits == 1
\* number of user edits in a behaviour of SpecStore
MaxTypings == 3
\* editor.save() promises in flight at once
MaxPending == 1
\* an entry's index is not corrected below -MaxDrift
MaxDrift == 2
\* the mutation calls of one undo() or redo() of which one may be rejected
MaxFail == 2
\* change observations the mutations of one undo() or redo() may cause
MaxObs == 2
\* number of undo() and redo() calls observed more than once in a behaviour
MaxSlow == 1

\* configuration.defaultBlock
defaultBlock == "paragraph"
Types == {"paragraph", "image"}
\* block data: 0 is the empty object {}, 1 an object with content
DataVals == {0, 1}
\* caret offsets VanillaCaret.getPos() reports
CaretVals == {1}
\* caretIndex null / missing
Null == -9
\* id of a block object that has no id property
NoId == 0
NoItem == [none |-> TRUE]
\* JavaScript undefined
Undef == [undef |-> TRUE]

Min(a, b) == IF a < b THEN a ELSE b
Max(a, b) == IF a > b THEN a ELSE b

\* limit of the live document's length (replays can grow it)
LiveCap == MaxBlocks + 1

----------------------------------------------------------------------------
(* JavaScript arrays and JSON *)

\* s[i] of a JavaScript array: undefined outside 0..length-1
At(s, i) == IF i \in 0..(Len(s) - 1) THEN s[i + 1] ELSE Undef

\* block objects: ko is the insertion order of the object's keys, 0 for the
\* order editor.save() writes (id, type, data)
Block(id, type, data, ko) == [id |-> id, type |-> type, data |-> data, ko |-> ko]

KeyOrder(b) ==
  IF b.id = NoId THEN "type,data"
  ELSE IF b.ko = 0 THEN "id,type,data" ELSE "data,id,type"

\* JSON.stringify of a block (or of undefined): keys are written in
\* insertion order, so two deep-equal objects can stringify differently
StringifyBlock(b) ==
  IF b = Undef THEN << "undefined", NoId, "", 0 >>
  ELSE << KeyOrder(b), b.id, b.type, b.data >>

Stringify(state) == [i \in 1..Len(state) |-> StringifyBlock(state[i])]

\* deep equality of two block objects / two snapshots: key order is not part of it
DeepEqualBlock(a, b) == a.id = b.id /\ a.type = b.type /\ a.data = b.data

DeepEqual(s, t) ==
  /\ Len(s) = Len(t)
  /\ \A i \in 1..Len(s) : DeepEqualBlock(s[i], t[i])

\* type and data of every position
Content(s) == [i \in 1..Len(s) |-> << s[i].type, s[i].data >>]

IdsOf(s) == {s[i].id : i \in 1..Len(s)} \ {NoId}

States(stk) == [i \in 1..Len(stk) |-> stk[i].state]

----------------------------------------------------------------------------
(* The editor's blocks and caret API, as the plugin calls it.  A call acts  *)
(* on m = [live, cur, muts, carets, err, ...]: the document, the current     *)
(* block index, the number of blocks-API mutation calls and of caret calls  *)
(* made so far by the running method, and whether the method has thrown.    *)
(* After a throw nothing more of the method runs.  A mutation call returns  *)
(* a promise: failAt is the mutation call that is rejected (0: none),       *)
(* rejected whether the promise just returned is, open the number of        *)
(* promises the method has not awaited, raced whether a mutation or a       *)
(* lookup of a live block began while one was open, lost whether a          *)
(* rejection was never awaited, failed whether a call was rejected.         *)

Machine(l, c) ==
  [live |-> l, cur |-> c, muts |-> 0, carets |-> 0, err |-> FALSE,
   failAt |-> 0, rejected |-> FALSE, open |-> 0, raced |-> FALSE, lost |-> FALSE,
   failed |-> FALSE]

\* the editor whose f-th mutation call of the method will be rejected
MachineFailing(l, c, f) == [Machine(l, c) EXCEPT !.failAt = f]

Throw(m) == [m EXCEPT !.err = TRUE]

\* a mutation call begins: it is counted, and its promise is open
Called(m) ==
  [m EXCEPT !.muts = @ + 1,
            !.open = @ + 1,
            !.raced = @ \/ m.open > 0,
            !.rejected = (m.failAt = m.muts + 1),
            !.failed = @ \/ (m.failAt = m.muts + 1)]

\* await of the promise just returned: a rejection is thrown in the method
Await(m) ==
  IF m.err THEN m
  ELSE IF m.rejected THEN Throw([m EXCEPT !.rejected = FALSE, !.open = @ - 1])
  ELSE [m EXCEPT !.open = @ - 1]

\* the promise just returned is dropped: a rejection reaches no one
NoAwait(m) ==
  IF m.err THEN m
  ELSE [m EXCEPT !.lost = @ \/ m.rejected, !.rejected = FALSE]

\* a lookup of a live block (getBlockByIndex, getById) begins
Lookup(m) == IF m.err THEN m ELSE [m EXCEPT !.raced = @ \/ m.open > 0]

\* ids held by the history (stack, initialItem, unresolved snapshots)
HeldIds ==
  UNION ( {IdsOf(stack[i].state) : i \in 1..Len(stack)}
          \cup {IdsOf(pending[i]) : i \in 1..Len(pending)}
          \cup {IF initialItem = NoItem THEN {} ELSE IdsOf(initialItem.state)} )

IdPool == 1..((maxLength + MaxPending + 3) * (LiveCap + 1))

\* the id the editor generates for a new block: one no block has or had
FreshId(l) ==
  LET free == IdPool \ (HeldIds \cup IdsOf(l))
  IN  CHOOSE n \in free : \A k \in free : n <= k

InsertAt(l, i, b) == SubSeq(l, 1, i) \o << b >> \o SubSeq(l, i + 1, Len(l))

RemoveAt(l, i) == SubSeq(l, 1, i) \o SubSeq(l, i + 2, Len(l))

\* blocks.insert(type, data, {}, index, true): a new block with a generated
\* id at index (at the end when index is beyond it), which becomes current
BlocksInsert(m, type, data, index) ==
  IF m.err THEN m
  ELSE IF Called(m).rejected THEN Called(m)
  ELSE LET i == Min(index, Len(m.live))
       IN  [Called(m) EXCEPT
              !.live = InsertAt(m.live, i, Block(FreshId(m.live), type, data, 0)),
              !.cur = i]

\* blocks.delete(index): no block there is a logged warning, not an error;
\* a document left empty gets a new default block
BlocksDelete(m, index) ==
  IF m.err THEN m
  ELSE IF Called(m).rejected THEN Called(m)
  ELSE IF At(m.live, index) = Undef THEN Called(m)
  ELSE LET l == RemoveAt(m.live, index)
           c == IF m.cur >= index THEN m.cur - 1 ELSE m.cur
       IN  IF Len(l) = 0
           THEN [Called(m) EXCEPT
                   !.live = << Block(FreshId(m.live), defaultBlock, 0, 0) >>,
                   !.cur = 0]
           ELSE [Called(m) EXCEPT
                   !.live = l,
                   !.cur = IF index = 0 THEN 0 ELSE c]

\* blocks.update(id, data): the block with that id gets the data
BlocksUpdate(m, id, data) ==
  IF m.err THEN m
  ELSE IF Called(m).rejected THEN Called(m)
  ELSE [Called(m) EXCEPT !.live = [i \in 1..Len(m.live) |->
                                     IF m.live[i].id = id
                                     THEN [m.live[i] EXCEPT !.data = data]
                                     ELSE m.live[i]]]

RECURSIVE RenderBlocks(_, _, _)
\* the blocks render() creates for state[k..]: a block keeps its id, one
\* without id gets a generated one
RenderBlocks(state, k, acc) ==
  IF k > Len(state) THEN acc
  ELSE LET b  == state[k]
           id == IF b.id = NoId THEN FreshId(acc) ELSE b.id
       IN  RenderBlocks(state, k + 1, Append(acc, Block(id, b.type, b.data, 0)))

\* blocks.render({ blocks: state }, true): the document is replaced; an empty
\* state renders one default block; no block is current afterwards
BlocksRender(m, state) ==
  IF m.err THEN m
  ELSE IF Called(m).rejected THEN Called(m)
  ELSE [Called(m) EXCEPT !.live = IF Len(state) = 0
                                  THEN << Block(FreshId(<< >>), defaultBlock, 0, 0) >>
                                  ELSE RenderBlocks(state, 1, << >>),
                         !.cur = -1]

\* blocks.getBlockByIndex(index)
GetBlockByIndex(m, index) == At(m.live, index)

\* editor.blocks.getById(id)
GetById(m, id) ==
  IF \E i \in 1..Len(m.live) : m.live[i].id = id
  THEN m.live[CHOOSE i \in 1..Len(m.live) : m.live[i].id = id]
  ELSE Undef

\* caret.setToBlock(index, "end"): false, and nothing done, without a block there
CaretSetToBlock(m, index) ==
  IF m.err THEN m
  ELSE [m EXCEPT !.cur = IF At(m.live, index) = Undef THEN @ ELSE index,
                 !.carets = @ + 1]

\* setCaretIndex(index, caretIndex): a recorded offset other than 0 and -1 is
\* restored through the block's DOM element (a TypeError without one), any
\* other value puts the caret at the block's end
SetCaretIndex(m, index, caretIndex) ==
  IF m.err THEN m
  ELSE IF caretIndex # Null /\ caretIndex # 0 /\ caretIndex # -1
       THEN IF At(m.live, index) = Undef THEN Throw(m)
            ELSE [m EXCEPT !.cur = index, !.carets = @ + 1]
       ELSE CaretSetToBlock(m, index)

----------------------------------------------------------------------------
(* Snapshot store *)

Entry(index, state, caretIndex) ==
  [index |-> index, state |-> state, caretIndex |-> caretIndex]

\* the entry clear() creates without initial data: one default block, no id
DefaultEntry == Entry(0, << Block(NoId, defaultBlock, 0, 0) >>, Null)

\* truncate with its loop test off by one: one entry too many survives
truncateLate(stk, limit) ==
  IF Len(stk) > limit + 1 THEN SubSeq(stk, Len(stk) - limit, Len(stk)) ELSE stk

\* truncate(stack, limit): shift() until the length is at most limit
truncate(stk, limit) ==
  IF Len(stk) > limit THEN SubSeq(stk, Len(stk) - limit + 1, Len(stk)) ELSE stk

\* the entry initialize(initialItem) builds
initialize(initialData) == Entry(Len(initialData) - 1, initialData, Null)

count == Len(stack) - 1

\* canUndo without its read-only test
canUndoAnyMode == position > 0

canUndo == ~readOnly /\ position > 0

canRedo == ~readOnly /\ position < count

\* editorDidUpdate(newData)
editorDidUpdate(newData) ==
  LET state == stack[position + 1].state
  IN  IF Len(newData) = 0 THEN FALSE
      ELSE IF Len(newData) # Len(state) THEN TRUE
      ELSE Stringify(state) # Stringify(newData)

\* the truncation test with > for >=
mustTruncateLate(pos) == pos > maxLength

\* the test of save() that starts the truncation
mustTruncate(pos) == pos >= maxLength

\* the position left as it is after a truncation
clampPositionNone(pos, stk) == pos

\* position after truncation: Math.min(position, stack.length - 1)
clampPosition(pos, stk) == Min(pos, Len(stk) - 1)

\* the stack kept whole, entries after position included
discardRedoNone(stk, pos) == stk

\* stack.slice(0, position + 1): the entries after position are dropped
discardRedo(stk, pos) == SubSeq(stk, 1, Min(pos + 1, Len(stk)))

\* save(state), with caret the offset getCaretIndex would report: the new
\* stack, position and initialAt, the number of onUpdate calls, whether
\* getCaretIndex threw (no block element at the live index), and how many
\* entries were shifted out at the front and cut off after position
save(state, caret) ==
  LET stk1   == IF mustTruncate(position) THEN truncate(stack, maxLength) ELSE stack
      shift  == Len(stack) - Len(stk1)
      pos1   == clampPosition(position, stk1)
      stk2   == discardRedo(stk1, pos1)
      at1    == IF initialAt - shift \in 0..(Len(stk2) - 1) THEN initialAt - shift ELSE -1
      index  == cur
      blockCount == Len(live)
      indexInState == IF At(state, index) = Undef
                      THEN index - (blockCount - Len(state))
                      ELSE index
      textual == /\ At(state, indexInState) # Undef
                 /\ At(state, indexInState).type \in {"paragraph", "header"}
      throws == textual /\ At(live, index) = Undef
      caretIndex == IF textual THEN caret ELSE Null
  IN  [stack    |-> IF throws THEN stk2
                    ELSE Append(stk2, Entry(indexInState, state, caretIndex)),
       position |-> IF throws THEN pos1 ELSE pos1 + 1,
       initialAt |-> at1,
       updates  |-> IF throws THEN 0 ELSE 1,
       err      |-> throws,
       pushed   |-> ~throws,
       shifted  |-> shift,
       cut      |-> Len(stk1) - Len(stk2)]

----------------------------------------------------------------------------
(* Change classifier *)

blockWasDropped(state, compState) ==
  IF Len(state) = Len(compState)
  THEN \E i \in 1..Len(state) : state[i].id # compState[i].id
  ELSE FALSE

blockWasSkipped(state, compState) == Len(state) # Len(compState)

contentChangedInNoFocusBlock(index, compIndex) == index # compIndex

blockWasDeleted(state, compState) == Len(state) > Len(compState)

\* contentWasCopied(state, compState, index), for a state that has a block at index
contentWasCopied(state, compState, index) ==
  /\ At(state, index).data = 0
  /\ StringifyBlock(At(compState, index + 1)) # StringifyBlock(At(state, index + 1))

----------------------------------------------------------------------------
(* Undo executor *)

\* insertDeletedBlock putting the block at the entry's index instead of the
\* place it was found missing
insertDeletedBlockAtIndex(m, state, compState, index) ==
  LET diverge == {i \in 0..(Len(state) - 1) :
                    \/ At(compState, i) = Undef
                    \/ At(state, i).id # At(compState, i).id}
  IN  IF diverge = {} THEN m
      ELSE LET i == CHOOSE k \in diverge : \A j \in diverge : k <= j
           IN  CaretSetToBlock(
                 NoAwait(BlocksInsert(m, At(state, i).type, At(state, i).data, index)),
                 index)

\* insertDeletedBlock(state, compState, index): the first block of state that
\* compState has not at the same place is inserted again (insert is not awaited)
insertDeletedBlock(m, state, compState, index) ==
  LET diverge == {i \in 0..(Len(state) - 1) :
                    \/ At(compState, i) = Undef
                    \/ At(state, i).id # At(compState, i).id}
  IN  IF diverge = {} THEN m
      ELSE LET i == CHOOSE k \in diverge : \A j \in diverge : k <= j
           IN  CaretSetToBlock(
                 NoAwait(BlocksInsert(m, At(state, i).type, At(state, i).data, i)),
                 index)

\* the recorded index taken as it is
undoIndexRecorded(entry) == entry.index

\* the index undo() works with: one less than recorded when state has no block there
undoIndex(entry) ==
  IF At(entry.state, entry.index) = Undef THEN entry.index - 1 ELSE entry.index

\* the final step of undo() and redo(): the live block at index gets state[index].data
syncFocused(m, state, index, caretIndex) ==
  IF m.err THEN m
  ELSE LET block == GetBlockByIndex(m, index)
       IN  IF block = Undef THEN Lookup(m)
           ELSE IF At(state, index) = Undef THEN Throw(Lookup(m))
           ELSE SetCaretIndex(
                  Await(BlocksUpdate(Lookup(m), block.id, At(state, index).data)),
                  index, caretIndex)

\* the classification branches of undo(), lines 283-301: entry is the entry
\* entered, next the entry left, m the editor when undo() was called
undoBranch(m, entry, next) ==
  LET state      == entry.state
      caretIndex == entry.caretIndex
      index      == undoIndex(entry)
      nextState  == next.state
      nextIndex  == next.index
      blockCount == Len(m.live)
  IN  IF blockWasDeleted(state, nextState)
        THEN insertDeletedBlock(m, state, nextState, index)
      ELSE IF At(state, index) = Undef
        THEN Throw(m)
      ELSE IF contentWasCopied(state, nextState, index)
        THEN CaretSetToBlock(Await(BlocksRender(m, state)), index)
      ELSE IF index < nextIndex /\ blockWasSkipped(state, nextState)
        THEN CaretSetToBlock(Await(BlocksDelete(m, nextIndex)), index)
      ELSE IF blockCount > Len(state)
        THEN SetCaretIndex(Await(BlocksRender(m, state)), index, caretIndex)
      ELSE IF blockWasDropped(state, nextState)
        THEN CaretSetToBlock(Await(BlocksRender(m, state)), index)
      ELSE IF contentChangedInNoFocusBlock(index, nextIndex)
        THEN IF GetBlockByIndex(m, nextIndex) = Undef \/ At(state, nextIndex) = Undef
             THEN Throw(Lookup(m))
             ELSE SetCaretIndex(
                    Await(BlocksUpdate(Lookup(m), GetBlockByIndex(m, nextIndex).id,
                                       At(state, nextIndex).data)),
                    index, caretIndex)
      ELSE m

\* the editor after undo() from entry next into entry
undoReplay(m, entry, next) ==
  syncFocused(undoBranch(m, entry, next), entry.state, undoIndex(entry),
              entry.caretIndex)

----------------------------------------------------------------------------
(* Redo executor *)

RECURSIVE insertBlocksFrom(_, _, _)
\* the loop of insertSkippedBlocks: insertBlock(state, i) for i = from .. length-1
insertBlocksFrom(m, state, from) ==
  IF from >= Len(state) THEN m
  ELSE insertBlocksFrom(
         NoAwait(BlocksInsert(m, At(state, from).type, At(state, from).data, from)),
         state, from + 1)

\* updateModifiedBlock(state, index)
updateModifiedBlock(m, state, index) ==
  LET block == At(state, index - 1)
  IN  IF block = Undef THEN Throw(m)
      ELSE IF GetById(m, block.id) # Undef
        THEN Await(BlocksUpdate(Lookup(m), block.id, block.data))
      ELSE Await(BlocksRender(Lookup(m), state))

\* insertSkippedBlocks(prevState, state, index)
insertSkippedBlocks(m, prevState, state, index) ==
  LET m1 == insertBlocksFrom(m, state, Len(prevState))
  IN  IF StringifyBlock(At(prevState, index - 1)) # StringifyBlock(At(state, index - 1))
      THEN updateModifiedBlock(m1, state, index)
      ELSE m1

\* prevState.findIndex(...) of redo(): -1 when no block qualifies
deletedIndexOf(prevState, state) ==
  LET gone == {i \in 0..(Len(prevState) - 1) :
                 \/ ~ \E j \in 1..Len(state) : state[j].id = At(prevState, i).id
                 \/ (At(state, i) # Undef /\ At(state, i).id # At(prevState, i).id)}
  IN  IF gone = {} THEN -1 ELSE CHOOSE k \in gone : \A j \in gone : k <= j

\* the classification branches of redo(), lines 382-405: entry is the entry
\* entered at newPosition, prev the entry left
redoBranch(m, entry, prev, newPosition) ==
  LET state     == entry.state
      index     == entry.index
      prevState == prev.state
  IN  IF blockWasDeleted(prevState, state)
        THEN LET deletedIndex == deletedIndexOf(prevState, state)
             IN  IF deletedIndex # -1
                 THEN CaretSetToBlock(Await(BlocksDelete(m, deletedIndex)),
                                      Min(deletedIndex, Len(state) - 1))
                 ELSE m
      ELSE IF blockWasSkipped(state, prevState)
        THEN CaretSetToBlock(insertSkippedBlocks(m, prevState, state, index), index)
      ELSE IF blockWasDropped(state, prevState) /\ newPosition # 1
        THEN CaretSetToBlock(Await(BlocksRender(m, state)), index)
      ELSE m

\* the editor after redo() from entry prev into entry
redoReplay(m, entry, prev, newPosition) ==
  syncFocused(redoBranch(m, entry, prev, newPosition), entry.state, entry.index,
              entry.caretIndex)

----------------------------------------------------------------------------
(* State machine *)

\* what the plugin method just called did: its onUpdate calls, its blocks-API
\* mutation calls, its caret calls, whether it threw, whether it appended an
\* entry, how many entries it shifted out at the front and cut off after
\* position, whether it put back an initial item the stack had lost, whether
\* it began a mutation or lookup while a mutation's promise was open,
\* whether a rejection was lost, and whether a mutation call was rejected;
\* NoFx after a step of the user or the editor
NoFx ==
  [updates |-> 0, muts |-> 0, carets |-> 0, err |-> FALSE,
   pushed |-> FALSE, shifted |-> 0, cut |-> 0, restored |-> FALSE,
   raced |-> FALSE, lost |-> FALSE, failed |-> FALSE]

Fx(updates, m) ==
  [NoFx EXCEPT !.updates = updates, !.muts = m.muts, !.carets = m.carets,
               !.err = m.err, !.raced = m.raced, !.lost = m.lost,
               !.failed = m.failed]

\* the run of undos followed by redos in progress: position and snapshots when
\* it began, undos and redos executed since, and whether it began with no
\* observation outstanding and no snapshot requested
NoRun == [p0 |-> -1, states |-> << >>, u |-> 0, r |-> 0, clean |-> FALSE]

\* the snapshot editor.save() resolves with
SavedData(l) == l

\* initial data as the caller may hand it over: the document's blocks with
\* the keys in the editor's order or in another one, or no block at all
WithKeyOrder(l, ko) == [i \in 1..Len(l) |-> [l[i] EXCEPT !.ko = ko]]

InitialDataOf(l) == {WithKeyOrder(l, 0), WithKeyOrder(l, 1), << >>}

\* documents the editor is opened with
InitDocs ==
  { << Block(1, "paragraph", 1, 0), Block(2, "image", 1, 0) >>,
    << Block(1, "paragraph", 1, 0), Block(2, "image", 1, 0),
       Block(3, "paragraph", 0, 0) >> }

StoreDocs == { << Block(1, "paragraph", 1, 0) >> }

\* the plugin after its constructor, in an editor showing one of docs, with
\* configuration.readOnly one of readOnlys
InitWith(docs, readOnlys) ==
  /\ stack = << DefaultEntry >>
  /\ position = 0
  /\ shouldSaveHistory = TRUE
  /\ readOnly \in readOnlys
  /\ toolbox = ~readOnly
  /\ initialItem = NoItem
  /\ initialAt = -1
  /\ live \in docs
  /\ cur = 0
  /\ pending = << >>
  /\ dirty = 0
  /\ edits = 0
  /\ fx = NoFx
  /\ run = NoRun

Init == InitWith(InitDocs, {FALSE})

InitStore == InitWith(StoreDocs, {FALSE})

InitReadOnly == InitWith(StoreDocs, BOOLEAN)

\* initialize(initialItem), called before any commit
Initialize ==
  \E initialData \in InitialDataOf(live) :
    /\ initialItem = NoItem
    /\ count = 0
    /\ edits = 0
    /\ stack' = [stack EXCEPT ![1] = initialize(initialData)]
    /\ initialItem' = initialize(initialData)
    /\ initialAt' = 0
    /\ fx' = NoFx
    /\ run' = NoRun
    /\ UNCHANGED << position, shouldSaveHistory, readOnly, live, cur, toolbox,
                    pending, dirty, edits >>

\* clear() keeping whatever entry is first in the stack
clearedStackFirst == << stack[1] >>

\* the stack clear() builds
clearedStack ==
  IF initialItem # NoItem THEN << initialItem >> ELSE << DefaultEntry >>

\* clear()
Clear ==
  /\ stack' = clearedStack
  /\ position' = 0
  /\ initialAt' = IF initialItem # NoItem THEN 0 ELSE -1
  /\ fx' = [NoFx EXCEPT !.updates = 1,
                        !.restored = (initialItem # NoItem /\ initialAt # 0)]
  /\ run' = NoRun
  /\ UNCHANGED << shouldSaveHistory, readOnly, initialItem, live, cur, toolbox,
                  pending, dirty, edits >>

\* a snapshot requested whatever the flag says
requestedAlways(flag, pend, data) == Append(pend, data)

\* the snapshots requested after registerChange(): editor.save() is called
\* only when shouldSaveHistory is set
requested(flag, pend, data) == IF flag THEN Append(pend, data) ELSE pend

\* registerChange(), up to the call of editor.save(); the observer calls it
\* once the document has changed
RegisterChange ==
  /\ dirty > 0
  /\ dirty' = dirty - 1
  /\ readOnly' = ~toolbox
  /\ IF ~readOnly'
     THEN /\ shouldSaveHistory => Len(pending) < MaxPending
          /\ pending' = requested(shouldSaveHistory, pending, SavedData(live))
          /\ shouldSaveHistory' = TRUE
     ELSE UNCHANGED << pending, shouldSaveHistory >>
  /\ fx' = NoFx
  /\ UNCHANGED << stack, position, initialItem, initialAt, live, cur, toolbox,
                  edits, run >>

\* the then-callback of registerChange(): editor.save() has resolved
SaveResolved ==
  /\ pending # << >>
  /\ LET savedData == Head(pending)
     IN  IF editorDidUpdate(savedData)
         THEN \E caret \in CaretVals :
                LET s == save(savedData, caret)
                IN  /\ stack' = s.stack
                    /\ position' = s.position
                    /\ initialAt' = s.initialAt
                    /\ fx' = [NoFx EXCEPT !.updates = s.updates, !.err = s.err,
                                          !.pushed = s.pushed,
                                          !.shifted = s.shifted, !.cut = s.cut]
                    /\ run' = NoRun
         ELSE /\ fx' = NoFx
              /\ UNCHANGED << stack, position, initialAt, run >>
  /\ pending' = Tail(pending)
  /\ UNCHANGED << shouldSaveHistory, readOnly, initialItem, live, cur, toolbox,
                  dirty, edits >>

\* undo() stepping back two entries
undoPositionTwice(pos) == Max(pos - 2, 0)

\* this.position -= 1
undoPosition(pos) == pos - 1

\* whether the observer fires more than once for a call with muts mutations
Slow(muts, obs) == obs > 1 /\ muts > 1 /\ edits < MaxEdits + MaxSlow

\* undo(), in an editor that rejects mutation call f (0: none) and whose
\* observer fires up to obs times for the mutations of the call
UndoCall(f, obs) ==
  IF canUndo
  THEN LET next  == stack[position + 1]
           entry == stack[position]
           index == undoIndex(entry)
           m     == undoReplay(MachineFailing(live, cur, f), entry, next)
       IN  /\ index >= -MaxDrift
           /\ Len(m.live) <= LiveCap
           /\ position' = undoPosition(position)
           /\ shouldSaveHistory' = FALSE
           /\ stack' = [stack EXCEPT ![position].index = index]
           /\ initialItem' = IF initialAt = position - 1
                             THEN [initialItem EXCEPT !.index = index]
                             ELSE initialItem
           /\ live' = m.live
           /\ cur' = m.cur
           /\ dirty' = Max(dirty, IF Slow(m.muts, obs) THEN Min(m.muts, obs)
                                   ELSE Min(m.muts, 1))
           /\ edits' = IF Slow(m.muts, obs) THEN edits + 1 ELSE edits
           /\ fx' = Fx(1, m)
           /\ run' = IF run.u > 0 /\ run.r = 0
                     THEN [run EXCEPT !.u = @ + 1]
                     ELSE [p0 |-> position, states |-> States(stack), u |-> 1,
                           r |-> 0, clean |-> (dirty = 0 /\ pending = << >>)]
           /\ UNCHANGED << readOnly, initialAt, toolbox, pending >>
  ELSE /\ fx' = NoFx
       /\ UNCHANGED << stack, position, shouldSaveHistory, readOnly, initialItem,
                       initialAt, live, cur, toolbox, pending, dirty, edits, run >>

\* undo() in an editor that rejects nothing and is observed once
Undo == UndoCall(0, 1)

\* redo(), in an editor that rejects mutation call f (0: none) and whose
\* observer fires up to obs times for the mutations of the call
RedoCall(f, obs) ==
  IF canRedo
  THEN LET entry == stack[position + 2]
           prev  == stack[position + 1]
           b     == redoBranch(MachineFailing(live, cur, f), entry, prev, position + 1)
           m     == redoReplay(MachineFailing(live, cur, f), entry, prev, position + 1)
       IN  /\ Len(m.live) <= LiveCap
           /\ position' = position + 1
           /\ shouldSaveHistory' = FALSE
           /\ live' = m.live
           /\ cur' = m.cur
           /\ dirty' = Max(dirty, IF Slow(m.muts, obs) THEN Min(m.muts, obs)
                                   ELSE Min(m.muts, 1))
           /\ edits' = IF Slow(m.muts, obs) THEN edits + 1 ELSE edits
           /\ fx' = Fx(IF b.err THEN 0 ELSE 1, m)
           /\ run' = IF run.u > 0 /\ run.r < run.u
                     THEN [run EXCEPT !.r = @ + 1]
                     ELSE NoRun
           /\ UNCHANGED << stack, readOnly, initialItem, initialAt, toolbox,
                           pending >>
  ELSE /\ fx' = NoFx
       /\ UNCHANGED << stack, position, shouldSaveHistory, readOnly, initialItem,
                       initialAt, live, cur, toolbox, pending, dirty, edits, run >>

\* redo() in an editor that rejects nothing and is observed once
Redo == RedoCall(0, 1)

\* undo() and redo() in an editor that may reject a mutation call
UndoFailing == \E f \in 0..MaxFail : UndoCall(f, 1)

RedoFailing == \E f \in 0..MaxFail : RedoCall(f, 1)

\* undo() and redo() in an editor whose observer may fire again for the later
\* mutations of the call
UndoSlow == UndoCall(0, MaxObs)

RedoSlow == RedoCall(0, MaxObs)

\* the editor's read-only mode is switched: the toolbox goes or comes back
ToggleReadOnly ==
  /\ toolbox' = ~toolbox
  /\ fx' = NoFx
  /\ UNCHANGED << stack, position, shouldSaveHistory, readOnly, initialItem,
                  initialAt, live, cur, pending, dirty, edits, run >>

\* a user edit (at most limit of them) changes the document and the current
\* block, and nothing of the plugin
UserStep(l, c, limit) ==
  /\ toolbox
  /\ edits < limit
  /\ live' = l
  /\ cur' = c
  /\ edits' = edits + 1
  /\ dirty' = 1
  /\ fx' = NoFx
  /\ run' = NoRun
  /\ UNCHANGED << stack, position, shouldSaveHistory, readOnly, initialItem,
                  initialAt, toolbox, pending >>

\* the user types in block k
UserType(limit) ==
  \E k \in 0..(Len(live) - 1), d \in DataVals :
    /\ d # At(live, k).data
    /\ UserStep([live EXCEPT ![k + 1].data = d], k, limit)

\* the user changes block k and takes the change back before the observer
\* fires (or the editor redraws something): the document is as it was
UserTouch(limit) ==
  \E k \in 0..(Len(live) - 1) : UserStep(live, k, limit)

\* the user moves the focus to block k, or out of the editor (no block is
\* current, -1): nothing of the document changes
UserFocus ==
  \E k \in -1..(Len(live) - 1) :
    /\ toolbox
    /\ k # cur
    /\ cur' = k
    /\ fx' = NoFx
    /\ UNCHANGED << stack, position, shouldSaveHistory, readOnly, initialItem,
                    initialAt, live, toolbox, pending, dirty, edits, run >>

\* the user adds an empty block at k: it takes the focus, or (Enter at the
\* start of a block's text) the block pushed down keeps it
UserInsert ==
  \E k \in 0..Len(live), t \in Types, stay \in BOOLEAN :
    LET c == IF stay THEN k + 1 ELSE k
    IN  /\ Len(live) < MaxBlocks
        /\ c <= Len(live)
        /\ UserStep(InsertAt(live, k, Block(FreshId(live), t, 0, 0)), c, MaxEdits)

\* the user removes block k; the block before it becomes current
UserDelete ==
  \E k \in 0..(Len(live) - 1) :
    /\ Len(live) > 1
    /\ UserStep(RemoveAt(live, k), Max(k - 1, 0), MaxEdits)

\* the user drags block k one place down; it stays current
UserMove ==
  \E k \in 0..(Len(live) - 2) :
    UserStep([live EXCEPT ![k + 1] = live[k + 2], ![k + 2] = live[k + 1]], k + 1,
             MaxEdits)

\* the plugin's methods
Calls ==
  \/ Initialize
  \/ Clear
  \/ RegisterChange
  \/ SaveResolved
  \/ Undo
  \/ Redo

Next ==
  \/ Calls
  \/ UserType(MaxEdits)
  \/ UserTouch(MaxEdits)
  \/ UserInsert
  \/ UserDelete
  \/ UserMove

Spec == Init /\ [][Next]_vars

\* a user who only types, in a one-block document, for longer
NextStore ==
  \/ Calls
  \/ UserType(MaxTypings)

SpecStore == InitStore /\ [][NextStore]_vars

\* an editor that is switched to read-only and back
NextReadOnly ==
  \/ Calls
  \/ ToggleReadOnly
  \/ UserType(MaxEdits)

SpecReadOnly == InitReadOnly /\ [][NextReadOnly]_vars

\* an editor whose mutation calls may be rejected
NextFail ==
  \/ Initialize
  \/ Clear
  \/ RegisterChange
  \/ SaveResolved
  \/ UndoFailing
  \/ RedoFailing
  \/ UserType(MaxEdits)
  \/ UserInsert
  \/ UserDelete

SpecFail == Init /\ [][NextFail]_vars

\* an editor whose observer may fire more than once for the mutations of one
\* undo() or redo()
NextSlow ==
  \/ Initialize
  \/ Clear
  \/ RegisterChange
  \/ SaveResolved
  \/ UndoSlow
  \/ RedoSlow
  \/ UserType(MaxEdits)
  \/ UserInsert
  \/ UserDelete

SpecSlow == Init /\ [][NextSlow]_vars

\* a user who types and moves the focus before the observer fires
NextFocus ==
  \/ Calls
  \/ UserType(MaxEdits)
  \/ UserFocus

SpecFocus == Init /\ [][NextFocus]_vars

----------------------------------------------------------------------------
(* Properties *)

\* the fields of the plugin and of the editor a call of undo() or redo() can
\* change
core == << stack, position, shouldSaveHistory, readOnly, initialItem, live, cur >>

\* a snapshot with every block's keys in the editor's order
Canon(s) == WithKeyOrder(s, 0)

\* the places k such that s2 is s1 without its block k
RemovedAt(s1, s2) ==
  {k \in 0..(Len(s1) - 1) : Canon(s2) = RemoveAt(Canon(s1), k)}

\* C1: during a run of undo() calls followed by redo() calls with no save in
\* between, every stack index keeps the snapshot committed there, and once as
\* many redos as undos have run position is back where the run began
C1_UndoRedoInverse ==
  run.u > 0 =>
    /\ States(stack) = run.states
    /\ (run.r = run.u => position = run.p0)

\* a full stack undone from its tail down to entry 0 and redone to the tail
C1_Witness ==
  /\ run.u = maxLength
  /\ run.r = run.u
  /\ run.p0 = run.u
  /\ run.p0 = Len(stack) - 1
  /\ position = run.p0
  /\ ~fx.err

\* C2: a save() that runs while position is below the tail keeps the entries
\* up to position, discards every entry after it and appends the new one, so
\* that afterwards position = length(stack) - 1 and canRedo() is false
C2_SaveAfterUndo ==
  [][ ( /\ SaveResolved
        /\ editorDidUpdate(Head(pending))
        /\ position < Len(stack) - 1 )
      => /\ SubSeq(stack', 1, position + 1) = SubSeq(stack, 1, position + 1)
         /\ Len(stack') <= position + 2
         /\ fx'.pushed => /\ Len(stack') = position + 2
                          /\ stack'[position + 2].state = Head(pending)
         /\ position' = Len(stack') - 1
         /\ ~canRedo' ]_vars

\* a save has just cut off entries after position and appended its own
C2_Witness ==
  /\ fx.pushed
  /\ fx.cut > 0
  /\ position = Len(stack) - 1
  /\ ~canRedo

\* C3: the stack is never empty and position is an index of it
C3_PositionInRange ==
  /\ Len(stack) >= 1
  /\ 0 <= position
  /\ position < Len(stack)

\* a save has just shifted the oldest entry out and position is at the tail
C3_Witness ==
  /\ fx.shifted > 0
  /\ fx.pushed
  /\ position = Len(stack) - 1
  /\ position = maxLength

\* C4 as stated: when a save() call has returned, the stack holds at most
\* maxLength entries
C4_StackAtMostMaxLength == fx.pushed => Len(stack) <= maxLength

\* C4 corrected: when a save() call has returned, the stack holds at most
\* maxLength + 1 entries (the entry under the changes and maxLength changes)
C4_StackAtMostMaxLengthPlusOne == fx.pushed => Len(stack) <= maxLength + 1

\* a save that truncated and left the stack with maxLength + 1 entries
C4_Witness ==
  /\ fx.pushed
  /\ fx.shifted = 1
  /\ Len(stack) = maxLength + 1

\* C5: count() = length(stack) - 1 never exceeds maxLength, whatever sequence
\* of save, undo, redo and clear has run
C5_CountBound == count = Len(stack) - 1 /\ count <= maxLength

\* a stack with maxLength changes, undone down to entry 0
C5_Witness ==
  /\ count = maxLength
  /\ position = 0
  /\ run.u = maxLength
  /\ run.r = 0

\* C6: with S1 the snapshot at position - 1 and S2 = S1 without one block the
\* snapshot at position, and the document equal to S2, a completed undo()
\* leaves the document with S1's type and data at every place (the block is
\* back where it was, the others untouched), and a completed redo() right
\* after it leaves the document equal to S2
C6_DeletionRoundTrip ==
  [][ /\ ( /\ canUndo
           /\ Undo
           /\ RemovedAt(stack[position].state, stack[position + 1].state) # {}
           /\ live = Canon(stack[position + 1].state)
           /\ ~fx'.err )
         => /\ Content(live') = Content(stack[position].state)
            /\ \A k \in RemovedAt(stack[position].state, stack[position + 1].state) :
                 RemoveAt(live', k) = Canon(stack[position + 1].state)
      /\ ( /\ canRedo
           /\ Redo
           /\ run.u = 1
           /\ run.r = 0
           /\ RemovedAt(stack[position + 1].state, stack[position + 2].state) # {}
           /\ Content(live) = Content(stack[position + 1].state)
           /\ \A k \in RemovedAt(stack[position + 1].state, stack[position + 2].state) :
                RemoveAt(live, k) = Canon(stack[position + 2].state)
           /\ ~fx'.err )
         => live' = Canon(stack[position + 2].state) ]_vars

\* the deletion of the middle block of three has been undone and redone
C6_Witness ==
  /\ run.u = 1
  /\ run.r = 1
  /\ ~fx.err
  /\ fx.muts > 0
  /\ position >= 1
  /\ Len(stack[position].state) = 3
  /\ 1 \in RemovedAt(stack[position].state, stack[position + 1].state)
  /\ live = Canon(stack[position + 1].state)

\* C7: with S1 the snapshot at position - 1 and S2 = S1 plus one block (at
\* any place, of any type) the snapshot at position, and the document equal
\* to S2, a completed undo() leaves the document with exactly S1's blocks,
\* and a completed redo() right after it leaves the document with S2's type
\* and data at every place
C7_InsertionRoundTrip ==
  [][ /\ ( /\ canUndo
           /\ Undo
           /\ RemovedAt(stack[position + 1].state, stack[position].state) # {}
           /\ live = Canon(stack[position + 1].state)
           /\ ~fx'.err )
         => Content(live') = Content(stack[position].state)
      /\ ( /\ canRedo
           /\ Redo
           /\ run.u = 1
           /\ run.r = 0
           /\ RemovedAt(stack[position + 2].state, stack[position + 1].state) # {}
           /\ live = Canon(stack[position + 1].state)
           /\ ~fx'.err )
         => Content(live') = Content(stack[position + 2].state) ]_vars

\* C8: canUndo() is ~readOnly /\ position > 0 and canRedo() is ~readOnly /\
\* position < count(); an undo() called when canUndo() is false, and a redo()
\* called when canRedo() is false, change neither the plugin's fields nor the
\* document nor the caret, call nothing of the blocks or caret API, do not
\* call onUpdate and do not throw
C8_GuardedNoOp ==
  [][ /\ canUndo <=> (~readOnly /\ position > 0)
      /\ canRedo <=> (~readOnly /\ position < Len(stack) - 1)
      /\ (Undo /\ (readOnly \/ position <= 0))
           => (UNCHANGED core /\ fx' = NoFx)
      /\ (Redo /\ (readOnly \/ position >= Len(stack) - 1))
           => (UNCHANGED core /\ fx' = NoFx) ]_vars

\* read-only with entries on both sides of position, and nothing called
C8_Witness ==
  /\ readOnly
  /\ position > 0
  /\ ~canUndo
  /\ ~canRedo
  /\ fx = NoFx

\* C9: clear() leaves exactly one entry, at position 0: the initial item
\* initialize() stored if there is one, otherwise the default entry (one empty
\* default block, index 0), whatever the stack held before
C9_ClearResets ==
  [][ Clear
      => /\ Len(stack') = 1
         /\ position' = 0
         /\ stack'[1] = IF initialItem # NoItem
                        THEN initialItem
                        ELSE Entry(0, << Block(NoId, defaultBlock, 0, 0) >>, Null) ]_vars

\* clear() has put back an initial item that truncation had shifted out
C9_Witness ==
  /\ fx.restored
  /\ Len(stack) = 1
  /\ position = 0
  /\ stack[1] = initialItem

\* C10: when editor.save() resolves with a snapshot deep-equal to the one at
\* the current position, nothing is committed: stack and position stay
C10_NoCommitOfEqualSnapshot ==
  [][ ( /\ SaveResolved
        /\ DeepEqual(Head(pending), stack[position + 1].state) )
      => /\ stack' = stack
         /\ position' = position ]_vars

\* C11: a save commit, a clear, an executed undo and an executed redo, each
\* of which changes position or the stack, call onUpdate before they end,
\* also when a mutation call of the undo or redo is rejected after position
\* has moved
C11_UpdateNotified ==
  [][ ( /\ SaveResolved \/ Clear \/ UndoFailing \/ RedoFailing
        /\ position' # position \/ stack' # stack )
      => fx'.updates >= 1 ]_vars

C13_ReplayNotRecorded ==
  [][ (SaveResolved /\ run.u > 0 /\ run.clean)
      => (stack' = stack /\ position' = position) ]_vars

\* C14: within one undo() or redo() every mutation call has completed (its
\* promise has been awaited) before the next mutation call or lookup of a
\* live block of that call begins
C14_SequentialReplay == ~fx.raced

\* C15: when a mutation call of an executed undo (redo) begun at position p
\* is rejected, the call throws to its caller, position is p - 1 (p + 1)
\* afterwards, the stack's entries are as before, and shouldSaveHistory is
\* false
C15_FailureLeavesPointerMoved ==
  [][ /\ (UndoFailing /\ canUndo /\ fx'.failed)
           => /\ fx'.err
              /\ position' = position - 1
              /\ stack' = stack
              /\ ~shouldSaveHistory'
      /\ (RedoFailing /\ canRedo /\ fx'.failed)
           => /\ fx'.err
              /\ position' = position + 1
              /\ stack' = stack
              /\ ~shouldSaveHistory' ]_vars

\* C16: an executed undo moves position by -1 and an executed redo by +1,
\* and both clear shouldSaveHistory; the stack keeps its length and every
\* entry its state and caretIndex; redo changes no entry; undo changes only
\* the index of the entry it enters, to index - 1, and exactly when the
\* recorded index is not a position of that entry's state
C16_StackFrame ==
  [][ /\ (Undo /\ canUndo)
           => /\ position' = position - 1
              /\ ~shouldSaveHistory'
              /\ readOnly' = readOnly
              /\ Len(stack') = Len(stack)
              /\ \A i \in 1..Len(stack) :
                   /\ stack'[i].state = stack[i].state
                   /\ stack'[i].caretIndex = stack[i].caretIndex
                   /\ stack'[i].index =
                        IF /\ i = position
                           /\ stack[i].index \notin 0..(Len(stack[i].state) - 1)
                        THEN stack[i].index - 1
                        ELSE stack[i].index
      /\ (Redo /\ canRedo)
           => /\ position' = position + 1
              /\ ~shouldSaveHistory'
              /\ readOnly' = readOnly
              /\ stack' = stack
              /\ initialItem' = initialItem ]_vars

\* an undo has entered an entry of no blocks and moved its index from -1 to -2
C16_Witness ==
  /\ run.u = 1
  /\ run.r = 0
  /\ position = 0
  /\ Len(stack[1].state) = 0
  /\ stack[1].index = -2
  /\ ~shouldSaveHistory

\* the data of every position
DataOf(s) == [i \in 1..Len(s) |-> s[i].data]

\* s1 and s2 have the same blocks in the same order and differ in the data
\* of exactly one
EditedInPlace(s1, s2) ==
  /\ Len(s1) = Len(s2)
  /\ \A i \in 1..Len(s1) : s1[i].id = s2[i].id /\ s1[i].type = s2[i].type
  /\ Cardinality({i \in 1..Len(s1) : s1[i].data # s2[i].data}) = 1

\* C17: with S1 the snapshot at position - 1 and S2 the snapshot at position,
\* the same blocks but for the data of one of them (whichever it is, relative
\* to the indices the two entries recorded), and the document equal to S2, a
\* completed undo() leaves every live block with S1's data and a completed
\* redo() right after it leaves every live block with S2's data
C17_EditRoundTrip ==
  [][ /\ ( /\ canUndo
           /\ Undo
           /\ EditedInPlace(stack[position].state, stack[position + 1].state)
           /\ live = Canon(stack[position + 1].state)
           /\ ~fx'.err )
         => DataOf(live') = DataOf(stack[position].state)
      /\ ( /\ canRedo
           /\ Redo
           /\ run.u = 1
           /\ run.r = 0
           /\ EditedInPlace(stack[position + 1].state, stack[position + 2].state)
           /\ live = Canon(stack[position + 1].state)
           /\ ~fx'.err )
         => DataOf(live') = DataOf(stack[position + 2].state) ]_vars

\* the id of every position
IdSeq(s) == [i \in 1..Len(s) |-> s[i].id]

\* s2 holds the blocks of s1 in another order
Reordered(s1, s2) ==
  /\ Len(s1) = Len(s2)
  /\ NoId \notin {s1[i].id : i \in 1..Len(s1)}
  /\ {Canon(s1)[i] : i \in 1..Len(s1)} = {Canon(s2)[i] : i \in 1..Len(s2)}
  /\ IdSeq(s1) # IdSeq(s2)

\* C18: with S1 the snapshot at position - 1 and S2 a reordering of S1 the
\* snapshot at position, and the document equal to S2, a completed undo()
\* leaves the document in S1's order and a completed redo() right after it
\* leaves it in S2's order, at every stack position, position 1 included
C18_ReorderRoundTrip ==
  [][ /\ ( /\ canUndo
           /\ Undo
           /\ Reordered(stack[position].state, stack[position + 1].state)
           /\ live = Canon(stack[position + 1].state)
           /\ ~fx'.err )
         => IdSeq(live') = IdSeq(stack[position].state)
      /\ ( /\ canRedo
           /\ Redo
           /\ run.u = 1
           /\ run.r = 0
           /\ Reordered(stack[position + 1].state, stack[position + 2].state)
           /\ live = Canon(stack[position + 1].state)
           /\ ~fx'.err )
         => IdSeq(live') = IdSeq(stack[position + 2].state) ]_vars

\* C19: in every reachable state the index of every history entry is a
\* position of that entry's own snapshot, 0 <= index < length(state)
C19_IndexValid ==
  \A i \in 1..Len(stack) :
    /\ stack[i].index >= 0
    /\ stack[i].index < Len(stack[i].state)

\* C20: a snapshot that registerChange() requested before an undo() or redo()
\* moved position, and that resolves after it with no user edit in between,
\* is not committed: the stack and position stay as they are, so the entries
\* after position are still there and canRedo() is unchanged
C20_NoStaleCommit ==
  [][ ( /\ SaveResolved
        /\ run.u > 0
        /\ ~run.clean )
      => ( /\ stack' = stack
           /\ position' = position
           /\ canRedo' = canRedo ) ]_vars

====
